---- MODULE Spec2Model ----
(***************************************************************************)
(* Graphlet hashing, hash-table construction and GED caching of            *)
(* RNAGlib/utils/graphlet_hash.py.                                         *)
(*                                                                         *)
(* Strings are sequences of one-character strings, ordered by code point   *)
(* as Python orders them.  A networkx graph is a record of its node set,   *)
(* its kind (directed or not) and, per arc <<u, v>>, the identity of the   *)
(* edge-attribute dict G[u][v]; the dicts themselves live in `heap`, so    *)
(* that two graph objects sharing a dict (a subgraph view) and two graph   *)
(* objects owning their dicts (a copy) are different states.               *)
(***************************************************************************)
EXTENDS Integers, Sequences, FiniteSets, TLC

VARIABLES
    symmetric_edges,   \* Hasher.symmetric_edges
    wl_hops,           \* Hasher.wl_hops
    heap,              \* edge-attribute dict -> its 'LW' label (NoLabel: no such key)
    G1,                \* the graph object handed to Hasher.hash
    calls,             \* Hasher.hash calls made on G1
    digest1,           \* what the last call on G1 returned
    heap0,             \* the heap before the first call on G1
    heap1,             \* the heap right after the first call on G1
    G2,                \* a second graph object, G1 under a renaming of its nodes
    digest2,           \* what hasher.hash(G2) returned
    GED_table,         \* {h_i: {h_j: value}}, the caller's cache
    tableKind,         \* the caller's GED_table: a dict or a defaultdict(dict)
    graphlet_table,    \* {h: {'graph': .., 'count': ..}}
    GED_prev,          \* GED_table before the last GED_hashtable_hashed call
    last,              \* the last GED_hashtable_hashed call and how it ended
    computed,          \* unordered pair -> the oracle-computed value a call returned
    oracleCalls,       \* unordered pair -> times ged was invoked for it
    pc,                \* build_hash_table: where the call is
    mode,              \* build_hash_table: 'count' or 'append'
    directed,          \* build_hash_table: directed
    graphlets,         \* build_hash_table: graphlets
    graphsLeft,        \* entries of graphlist the loop has not finished
    curG,              \* G, the graph being processed
    srcLabels,         \* the edge labels of curG as it was loaded
    todo,              \* the graphlets of curG (or [curG])
    ti,                \* index in todo of the next graphlet to hash
    hash_table,        \* {h: {'graph': .., 'count': ..}} or {h: {'graphs': [..]}}
    seen               \* digest -> graphlets processed so far that hashed to it

hashVars == <<symmetric_edges, wl_hops, heap, G1, calls, digest1, heap0, heap1,
              G2, digest2>>
gedVars == <<GED_table, tableKind, graphlet_table, GED_prev, last, computed,
             oracleCalls>>
buildVars == <<pc, mode, directed, graphlets, graphsLeft, curG, srcLabels, todo, ti,
               hash_table, seen>>
vars == <<hashVars, gedVars, buildVars>>

\* ------------------------------------------------------------------ bounds
MaxPathEdges == 2      \* edges of the path graphs hashed in SpecCanon
MaxCalls == 2          \* Hasher.hash calls on one graph in SpecCanon
MaxNodes == 3          \* nodes of the graphs compared in SpecHash
MaxEdges == 2          \* edges of the graphs compared in SpecHash
MaxHops == 2           \* largest wl_hops in SpecHash
MaxResolve == 2        \* GED_hashtable_hashed calls in SpecGED
MaxDist == 1           \* largest distance the oracle returns in SpecGED
MaxGraphs == 2         \* entries of the corpus directory in SpecBuild
MaxBuildNodes == 2     \* nodes of a corpus graph in SpecBuild

\* Hasher.__init__: wl_hops=2
DefaultWlHops == 2
\* build_hash_table: graphlet_size=1
DefaultGraphletSize == 1
\* GED_hashtable_hashed: beta=.50, as BetaNum / BetaDen
BetaNum == 1
BetaDen == 2

None == "None"

\* ----------------------------------------------------------------- strings
ord == [c \in {"3", "5", "B", "C", "H", "S", "T", "W", "[", "]"} |->
          CASE c = "3" -> 51 [] c = "5" -> 53 [] c = "B" -> 66 [] c = "C" -> 67
            [] c = "H" -> 72 [] c = "S" -> 83 [] c = "T" -> 84 [] c = "W" -> 87
            [] c = "[" -> 91 [] c = "]" -> 93]

\* Python's str <= : lexicographic by code point, a prefix first.
RECURSIVE StrLeq(_, _)
StrLeq(a, b) ==
    IF a = <<>> THEN TRUE
    ELSE IF b = <<>> THEN FALSE
    ELSE IF Head(a) = Head(b) THEN StrLeq(Tail(a), Tail(b))
    ELSE ord[Head(a)] < ord[Head(b)]

\* insertion of x into the sorted sequence s (of strings)
RECURSIVE Insert(_, _)
Insert(x, s) ==
    IF s = <<>> THEN <<x>>
    ELSE IF StrLeq(x, Head(s)) THEN <<x>> \o s
    ELSE <<Head(s)>> \o Insert(x, Tail(s))

\* sorted(list) on a list of strings
RECURSIVE sorted(_)
sorted(s) == IF s = <<>> THEN <<>> ELSE Insert(Head(s), sorted(Tail(s)))

\* "".join(list)
RECURSIVE join(_)
join(s) == IF s = <<>> THEN <<>> ELSE Head(s) \o join(Tail(s))

\* the characters of a string, as a list of one-character strings
Chars(s) == [i \in 1..Len(s) |-> <<s[i]>>]

\* ------------------------------------------------------------------ labels
faces == {"W", "S", "H"}
orientations == {"C", "T"}
B53 == <<"B", "5", "3">>
labels == {<<o, e1, e2>> : o \in orientations, e1 \in faces, e2 \in faces} \cup {B53}

\* an edge-attribute dict without the 'LW' key
NoLabel == <<>>

\* the rewrite of one edge label in Hasher.hash (symmetric_edges)
ReverseSuffix(label) ==
    IF label /= B53 THEN <<label[1], label[3], label[2]>> ELSE label
SortWholeLabel(label) ==
    IF label /= B53 THEN join(sorted(Chars(label))) ELSE label
canonicalize(label) ==
    IF label /= B53
    THEN <<Head(label)>> \o join(sorted(Chars(Tail(label))))
    ELSE label

\* ------------------------------------------------------------------ graphs
\* A graph object: nodes, directed (DiGraph) or not (Graph), and adj, which
\* maps each arc <<u, v>> to the identity of its attribute dict.  In an
\* undirected graph <<u, v>> and <<v, u>> are both arcs and share one dict.
Arcs(G) == DOMAIN G.adj
Refs(G) == {G.adj[a] : a \in Arcs(G)}

\* G.neighbors(n): the successors in a DiGraph, the neighbours in a Graph
neighbors(G, n) == {v \in G.nodes : <<n, v>> \in Arcs(G)}

\* the edge labels of a graph object, arc by arc, as the heap holds them
EdgeLabels(G, hp) == [a \in Arcs(G) |-> hp[G.adj[a]]]

\* a set as a list, in some order
RECURSIVE SetToSeq(_)
SetToSeq(S) ==
    IF S = {} THEN <<>>
    ELSE LET x == CHOOSE y \in S : TRUE IN <<x>> \o SetToSeq(S \ {x})

\* ------------------------------------------------------- networkx WL hash
\* _hash_label: blake2b of the string, modelled as an injective digest (the
\* string in brackets, so that concatenated digests stay separable)
hash_label(s) == <<"[">> \o s \o <<"]">>

\* _neighborhood_aggregate without its sorted(): the neighbours in dict order
neighborhood_aggregate_unsorted(G, hp, node, node_labels) ==
    LET nbrs == SetToSeq(neighbors(G, node))
        label_list == [i \in 1..Len(nbrs) |->
                          hp[G.adj[<<node, nbrs[i]>>]] \o node_labels[nbrs[i]]]
    IN  node_labels[node] \o join(label_list)

\* _neighborhood_aggregate, with edge_attr given
neighborhood_aggregate(G, hp, node, node_labels) ==
    LET nbrs == SetToSeq(neighbors(G, node))
        label_list == [i \in 1..Len(nbrs) |->
                          hp[G.adj[<<node, nbrs[i]>>]] \o node_labels[nbrs[i]]]
    IN  node_labels[node] \o join(sorted(label_list))

weisfeiler_lehman_step(G, hp, node_labels) ==
    [node \in G.nodes |-> hash_label(neighborhood_aggregate(G, hp, node, node_labels))]

\* sorted(Counter(node_labels.values()).items())
CounterItems(G, node_labels) ==
    LET vals == sorted(SetToSeq({node_labels[n] : n \in G.nodes}))
    IN  [i \in 1..Len(vals) |->
            <<vals[i], Cardinality({n \in G.nodes : node_labels[n] = vals[i]})>>]

\* the loop of weisfeiler_lehman_graph_hash: `left` iterations still to run
RECURSIVE wl_loop(_, _, _, _, _)
wl_loop(G, hp, node_labels, subgraph_hash_counts, left) ==
    IF left = 0 THEN subgraph_hash_counts
    ELSE LET new_labels == weisfeiler_lehman_step(G, hp, node_labels)
         IN  wl_loop(G, hp, new_labels,
                     subgraph_hash_counts \o CounterItems(G, new_labels), left - 1)

\* wl(G, edge_attr=label, iterations): node labels start as "" (no node_attr);
\* the digest is the hash of the tuple of counts, kept as the tuple
wl(G, hp, iterations) ==
    wl_loop(G, hp, [n \in G.nodes |-> <<>>], <<>>, iterations)

\* wl reads G[node][nbr][edge_attr] once a step runs: KeyError on a dict
\* without the label
wl_raises(G, hp, iterations) ==
    iterations > 0 /\ \E r \in Refs(G) : hp[r] = NoLabel

\* ------------------------------------------------------------ Hasher.hash
\* The heap after the symmetric_edges loop has rewritten the dicts `done`.
Canonicalized(hp, done) ==
    [r \in DOMAIN hp |-> IF r \in done THEN canonicalize(hp[r]) ELSE hp[r]]

\* Every way a call Hasher.hash(G) can end: it returns a digest, or raises
\* KeyError at the first edge without a label, the edges visited before it
\* (any set of the labelled ones, G.edges() has the file's order) rewritten.
HasherHash(G, hp, sym, hops) ==
    IF sym
    THEN IF \E r \in Refs(G) : hp[r] = NoLabel
         THEN {[raised |-> TRUE, digest |-> <<>>, heap |-> Canonicalized(hp, done)] :
                  done \in SUBSET {r \in Refs(G) : hp[r] /= NoLabel}}
         ELSE LET hp2 == Canonicalized(hp, Refs(G))
              IN  {[raised |-> FALSE, digest |-> wl(G, hp2, hops), heap |-> hp2]}
    ELSE IF wl_raises(G, hp, hops)
         THEN {[raised |-> TRUE, digest |-> <<>>, heap |-> hp]}
         ELSE {[raised |-> FALSE, digest |-> wl(G, hp, hops), heap |-> hp]}

\* the variables of the other operations, while they are not in use
HashIdle ==
    /\ symmetric_edges = TRUE /\ wl_hops = DefaultWlHops /\ heap = <<>>
    /\ G1 = None /\ G2 = None /\ calls = 0 /\ digest1 = None /\ digest2 = None
    /\ heap0 = None /\ heap1 = None
EmptyGraph == [nodes |-> {}, directed |-> TRUE, adj |-> <<>>]
BuildIdle ==
    /\ pc = "idle" /\ mode = "count" /\ directed = TRUE /\ graphlets = TRUE
    /\ graphsLeft = 0 /\ curG = EmptyGraph /\ srcLabels = <<>> /\ todo = <<>> /\ ti = 1
    /\ hash_table = <<>> /\ seen = <<>>
GedIdle ==
    /\ GED_table = <<>> /\ tableKind = None /\ graphlet_table = <<>>
    /\ GED_prev = <<>> /\ last = <<>> /\ computed = <<>> /\ oracleCalls = <<>>

\* =================================================================
\* SpecCanon: Hasher.hash called repeatedly on one graph whose edge
\* labels range over the whole vocabulary.
\* =================================================================
\* the path 1 - 2 - ... - (k+1) as an nx.Graph: both arcs of edge i share the
\* dict <<1, i>>
PathGraph(k) ==
    [nodes |-> 1..(k + 1),
     directed |-> FALSE,
     adj |-> [a \in {<<i, i + 1>> : i \in 1..k} \cup {<<i + 1, i>> : i \in 1..k}
                |-> IF a[1] < a[2] THEN <<1, a[1]>> ELSE <<1, a[2]>>]]

InitCanon ==
    /\ symmetric_edges \in BOOLEAN
    /\ wl_hops = DefaultWlHops
    /\ \E k \in 0..MaxPathEdges :
          /\ G1 = PathGraph(k)
          /\ heap \in [{<<1, i>> : i \in 1..k} -> labels]
    /\ calls = 0
    /\ digest1 = None
    /\ heap0 = heap
    /\ heap1 = None
    /\ G2 = None
    /\ digest2 = None
    /\ GedIdle
    /\ BuildIdle

\* digest = hasher.hash(G1)
HashCall ==
    /\ calls < MaxCalls
    /\ \E r \in HasherHash(G1, heap, symmetric_edges, wl_hops) :
          /\ ~r.raised
          /\ heap' = r.heap
          /\ digest1' = r.digest
          /\ heap1' = IF calls = 0 THEN r.heap ELSE heap1
    /\ calls' = calls + 1
    /\ UNCHANGED <<symmetric_edges, wl_hops, G1, heap0, G2, digest2, gedVars, buildVars>>

NextCanon == HashCall

SpecCanon == InitCanon /\ [][NextCanon]_vars

\* C8: running Hasher.hash a second time leaves every edge label as the first
\* call left it, and canonicalize(canonicalize(l)) = canonicalize(l) for every
\* label l of the vocabulary.
C8_CanonIdempotent ==
    /\ calls >= 2 => EdgeLabels(G1, heap) = EdgeLabels(G1, heap1)
    /\ \A l \in labels : canonicalize(canonicalize(l)) = canonicalize(l)

\* a second call made on a graph whose labels the first call rewrote
C8_Witness ==
    /\ calls = 2
    /\ symmetric_edges
    /\ \E r \in DOMAIN heap0 : heap1[r] /= heap0[r]
    /\ heap = heap1

\* l2 is l1 with its two faces swapped
Mirrored(l1, l2) ==
    l1 /= B53 /\ l2 /= B53 /\ l2 = <<l1[1], l1[3], l1[2]>>

\* C9: after the symmetric_edges step two edges whose labels were o+f1+f2 and
\* o+f2+f1 carry the same label, every label still starts with its
\* orientation, and a B53 edge is still B53.
C9_CanonSymmetric ==
    (calls >= 1 /\ symmetric_edges) =>
        /\ \A r, q \in DOMAIN heap0 : Mirrored(heap0[r], heap0[q]) => heap[r] = heap[q]
        /\ \A r \in DOMAIN heap0 :
              IF heap0[r] = B53 THEN heap[r] = B53
              ELSE Len(heap[r]) = 3 /\ heap[r][1] = heap0[r][1]

\* a graph with the edges T+W+H and T+H+W (and one with a B53 edge) was hashed
C9_Witness ==
    /\ calls >= 1
    /\ symmetric_edges
    /\ \E r, q \in DOMAIN heap0 :
          /\ heap0[r] = <<"T", "W", "H">>
          /\ heap0[q] = <<"T", "H", "W">>
          /\ heap[r] = heap[q]
          /\ heap[r] = <<"T", "H", "W">>

\* =================================================================
\* SpecHash: the doctest of Hasher.hash, hasher.hash(G1) == hasher.hash(G2),
\* on a graph G1 and a copy G2 of it under a renaming of the nodes.
\* =================================================================
Nodes == 1..MaxNodes
HashLabelSample == {B53, <<"C", "W", "H">>}

\* the unordered pairs of nodes, each as the arc from its smaller node
Pairs == {a \in Nodes \X Nodes : a[1] < a[2]}
Flip(a) == <<a[2], a[1]>>

\* the graph object number `id` over `nodes` with the edges `es` (a Graph), or
\* with the arcs `es` (a DiGraph); the dict of a pair is <<id, pair>>
MakeGraph(id, nodes, es, di) ==
    [nodes |-> nodes,
     directed |-> di,
     adj |-> [a \in es \cup (IF di THEN {} ELSE {Flip(e) : e \in es})
                |-> IF a \in es THEN <<id, a>> ELSE <<id, Flip(a)>>]]

\* G under the renaming f of its nodes, as graph object `id` with its own dicts
Relabel(id, G, f) ==
    [nodes |-> {f[n] : n \in G.nodes},
     directed |-> G.directed,
     adj |-> [a \in {<<f[b[1]], f[b[2]]>> : b \in Arcs(G)} |->
                LET b == CHOOSE c \in Arcs(G) : <<f[c[1]], f[c[2]]>> = a
                IN  <<id, G.adj[b][2]>>]]

\* the bijections from Nodes onto the disjoint names MaxNodes+1 .. 2*MaxNodes
Renamings ==
    {f \in [Nodes -> (MaxNodes + 1)..(2 * MaxNodes)] :
        \A m, n \in Nodes : m /= n => f[m] /= f[n]}

InitHash ==
    /\ symmetric_edges = TRUE                        \* hasher = Hasher()
    /\ wl_hops \in 0..MaxHops
    /\ \E es \in SUBSET Pairs, f \in Renamings :
          /\ Cardinality(es) <= MaxEdges
          /\ G1 = MakeGraph(1, Nodes, es, FALSE)      \* nx.Graph(), as the doctest
          /\ G2 = Relabel(2, G1, f)
          /\ \E lab \in [es -> HashLabelSample] :
                heap = [r \in {<<1, e>> : e \in es} \cup {<<2, e>> : e \in es}
                          |-> lab[r[2]]]
    /\ calls = 0
    /\ digest1 = None
    /\ digest2 = None
    /\ heap0 = heap
    /\ heap1 = None
    /\ GedIdle
    /\ BuildIdle

\* hasher.hash(G1) == hasher.hash(G2): the two calls of the doctest
DoctestCompare ==
    /\ calls = 0
    /\ \E r1 \in HasherHash(G1, heap, symmetric_edges, wl_hops) :
          /\ ~r1.raised
          /\ digest1' = r1.digest
          /\ \E r2 \in HasherHash(G2, r1.heap, symmetric_edges, wl_hops) :
                /\ ~r2.raised
                /\ digest2' = r2.digest
                /\ heap' = r2.heap
    /\ calls' = 2
    /\ UNCHANGED <<symmetric_edges, wl_hops, G1, G2, heap0, heap1, gedVars, buildVars>>

NextHash == DoctestCompare

SpecHash == InitHash /\ [][NextHash]_vars

\* C6: a graph and its copy under any renaming of the nodes get the same
\* digest from Hasher.hash, for every wl_hops.
C6_IsoInvariant ==
    calls = 2 => digest1 = digest2

\* the doctest's case: the path with two B53 edges, its middle node renamed to
\* another graph's end node, under the default wl_hops
C6_Witness ==
    /\ calls = 2
    /\ wl_hops = DefaultWlHops
    /\ symmetric_edges
    /\ Arcs(G1) = {<<1, 2>>, <<2, 1>>, <<2, 3>>, <<3, 2>>}
    /\ \A r \in DOMAIN heap : heap[r] = B53
    /\ G1.nodes \cap G2.nodes = {}
    /\ neighbors(G2, MaxNodes + 1) = {MaxNodes + 2, MaxNodes + 3}
    /\ digest1 = digest2
    /\ digest1 /= <<>>

\* =================================================================
\* SpecGED: GED_hashtable_hashed called again and again on one GED table.
\* Numbers are fixed-point, in units of 1 / Scale.
\* =================================================================
Scale == 100 * 100
\* np.exp(-0.5), in units of 1 / Scale
ExpHalf == 6065

\* np.exp(-k / 2)
RECURSIVE ExpNegHalves(_)
ExpNegHalves(k) == IF k = 0 THEN Scale ELSE (ExpNegHalves(k - 1) * ExpHalf) \div Scale

\* np.exp(-beta * distance), for an integral distance
NpExpNegBeta(distance) == ExpNegHalves((2 * BetaNum * distance) \div BetaDen)

\* the digests of the hash table, and one that is no key of it
Digests == {"a", "b"}
MissingDigest == "z"
TableInit == [h \in Digests |-> [graph |-> <<"graphlet", h>>, count |-> 1]]

UPair(a, b) == {a, b}
AllUPairs == {UPair(a, b) : a, b \in Digests \cup {MissingDigest}}

\* d[k] = v on a dict
Put(d, k, v) == [x \in DOMAIN d \cup {k} |-> IF x = k THEN v ELSE d[x]]

\* table[a], as far as it changes the table: a defaultdict(dict) gains an
\* empty dict for a key it does not hold
Touch(table, kind, a) ==
    IF kind = "defaultdict" /\ a \notin DOMAIN table THEN Put(table, a, <<>>) ELSE table

HasValue(table, a, b) == a \in DOMAIN table /\ b \in DOMAIN table[a]

\* every value the table stores, with its place
Stored(table) ==
    {<<a, b, table[a][b]>> : <<a, b>> \in
        {x \in (DOMAIN table) \X (Digests \cup {MissingDigest}) : HasValue(table, x[1], x[2])}}

\* the two try blocks: GED_table[h_G][h_H], then GED_table[h_H][h_G]
LookupForwardOnly(table, kind, h_G, h_H) ==
    LET t1 == Touch(table, kind, h_G)
    IN  IF HasValue(t1, h_G, h_H)
        THEN [hit |-> TRUE, value |-> t1[h_G][h_H], table |-> t1]
        ELSE [hit |-> FALSE, value |-> -1, table |-> Touch(t1, kind, h_H)]
Lookup(table, kind, h_G, h_H) ==
    LET t1 == Touch(table, kind, h_G)
    IN  IF HasValue(t1, h_G, h_H)
        THEN [hit |-> TRUE, value |-> t1[h_G][h_H], table |-> t1]
        ELSE LET t2 == Touch(t1, kind, h_H)
             IN  IF HasValue(t2, h_H, h_G)
                 THEN [hit |-> TRUE, value |-> t2[h_H][h_G], table |-> t2]
                 ELSE [hit |-> FALSE, value |-> -1, table |-> t2]

\* GED_table[h_G][h_H] = value; KeyError on a dict without the key h_G
StoreBothWays(table, h_G, h_H, value) ==
    IF h_G \in DOMAIN table
    THEN LET t1 == Put(table, h_G, Put(table[h_G], h_H, value))
         IN  [ok |-> TRUE,
              table |-> IF h_H \in DOMAIN t1
                        THEN Put(t1, h_H, Put(t1[h_H], h_G, value)) ELSE t1]
    ELSE [ok |-> FALSE, table |-> table]
Store(table, h_G, h_H, value) ==
    IF h_G \in DOMAIN table
    THEN [ok |-> TRUE, table |-> Put(table, h_G, Put(table[h_G], h_H, value))]
    ELSE [ok |-> FALSE, table |-> table]

\* the value computed from the oracle's distance
Converted(distance, normed, similarity) ==
    IF similarity THEN NpExpNegBeta(distance)
    ELSE IF normed THEN Scale - NpExpNegBeta(distance)
    ELSE distance * Scale

\* distance = ged(G, H, timeout=timeout) raised: nothing catches it
OracleRaisedCachesZero(table, h_G, h_H) ==
    [kind |-> "computed", value |-> 0, oracle |-> TRUE, oracleFailed |-> TRUE,
     table |-> Store(table, h_G, h_H, 0).table]
OracleRaised(table, h_G, h_H) ==
    [kind |-> "raised", value |-> -1, oracle |-> TRUE, oracleFailed |-> TRUE,
     table |-> table]

\* One call of GED_hashtable_hashed, the oracle ending as `o` (a distance, or
\* "raise") if it is invoked: how the call ends and the table it leaves.
GED_hashtable_hashed(h_G, h_H, table, kind, gtable, normed, similarity, o) ==
    LET found == Lookup(table, kind, h_G, h_H)
    IN  IF found.hit
        THEN [kind |-> "cached", value |-> found.value, oracle |-> FALSE,
              oracleFailed |-> FALSE, table |-> found.table]
        ELSE IF h_G \notin DOMAIN gtable \/ h_H \notin DOMAIN gtable
        THEN [kind |-> "raised", value |-> -1, oracle |-> FALSE,
              oracleFailed |-> FALSE, table |-> found.table]
        ELSE IF o = -1
        THEN OracleRaised(found.table, h_G, h_H)
        ELSE LET value == Converted(o, normed, similarity)
                 st == Store(found.table, h_G, h_H, value)
             IN  IF st.ok
                 THEN [kind |-> "computed", value |-> value, oracle |-> TRUE,
                       oracleFailed |-> FALSE, table |-> st.table]
                 ELSE [kind |-> "raised", value |-> -1, oracle |-> TRUE,
                       oracleFailed |-> FALSE, table |-> st.table]

NoCall ==
    [n |-> 0, h_G |-> MissingDigest, h_H |-> MissingDigest, normed |-> TRUE,
     similarity |-> FALSE, kind |-> "none", value |-> -1, oracle |-> FALSE,
     oracleFailed |-> FALSE, prior |-> -1]

InitGED ==
    /\ HashIdle
    /\ BuildIdle
    /\ tableKind \in {"dict", "defaultdict"}
    /\ GED_table \in (IF tableKind = "dict"
                      THEN {<<>>, [h \in Digests |-> <<>>]} ELSE {<<>>})
    /\ graphlet_table = TableInit
    /\ GED_prev = GED_table
    /\ last = NoCall
    /\ computed = <<>>
    /\ oracleCalls = [p \in AllUPairs |-> 0]

\* GED_hashtable_hashed(h_G, h_H, GED_table, graphlet_table, normed=.., similarity=..);
\* o = -1: the oracle raises
Resolve ==
    /\ last.n < MaxResolve
    /\ \E h_G, h_H \in Digests \cup {MissingDigest}, normed, similarity \in BOOLEAN,
          o \in -1..MaxDist :
          LET r == GED_hashtable_hashed(h_G, h_H, GED_table, tableKind,
                                        graphlet_table, normed, similarity, o)
              p == UPair(h_G, h_H)
          IN  /\ GED_prev' = GED_table
              /\ GED_table' = r.table
              /\ last' = [n |-> last.n + 1, h_G |-> h_G, h_H |-> h_H,
                          normed |-> normed, similarity |-> similarity,
                          kind |-> r.kind, value |-> r.value, oracle |-> r.oracle,
                          oracleFailed |-> r.oracleFailed,
                          prior |-> IF p \in DOMAIN computed THEN computed[p] ELSE -1]
              /\ computed' = IF r.kind = "computed" THEN Put(computed, p, r.value)
                             ELSE computed
              /\ oracleCalls' = IF r.oracle
                                THEN [oracleCalls EXCEPT ![p] = @ + 1] ELSE oracleCalls
    /\ UNCHANGED <<tableKind, graphlet_table, hashVars, buildVars>>

NextGED == Resolve

SpecGED == InitGED /\ [][NextGED]_vars

\* C1: once a call on the pair {a, b} has returned a value computed by the
\* oracle, every later call on (a, b) or (b, a) returns that very value from
\* the cache and does not invoke the oracle.
C1_CacheSymmetric ==
    (last.kind /= "none" /\ last.prior /= -1) =>
        /\ last.kind = "cached"
        /\ last.value = last.prior
        /\ ~last.oracle

\* resolve(b, a) served from the value resolve(a, b) stored at [a][b]
C1_Witness ==
    /\ last.kind = "cached"
    /\ last.prior /= -1
    /\ last.h_G = "b" /\ last.h_H = "a"
    /\ HasValue(GED_table, "a", "b")
    /\ ~HasValue(GED_table, "b", "a")
    /\ oracleCalls[UPair("a", "b")] = 1

\* C2: a call with similarity=True returns a value in (0, 1], a call with
\* normed=True and similarity=False one in [0, 1), computed or cached.
C2_SimilarityBound ==
    last.kind \in {"cached", "computed"} =>
        /\ last.similarity => (0 < last.value /\ last.value <= Scale)
        /\ (last.normed /\ ~last.similarity) => (0 <= last.value /\ last.value < Scale)

\* C3: when the oracle fails the call fails, and no value is stored for the
\* pair in either orientation (nor anywhere else).
C3_OracleFailureNotCached ==
    last.oracleFailed =>
        /\ last.kind = "raised"
        /\ ~HasValue(GED_table, last.h_G, last.h_H)
        /\ ~HasValue(GED_table, last.h_H, last.h_G)
        /\ Stored(GED_table) = Stored(GED_prev)

\* the oracle failed on a pair it had been invoked for before: a retry
C3_Witness ==
    /\ last.oracleFailed
    /\ last.kind = "raised"
    /\ last.h_G /= last.h_H
    /\ oracleCalls[UPair(last.h_G, last.h_H)] = 2

\* C10: a call that computes a value adds it at GED_table[a][b] and nowhere
\* else, leaving every other stored value and GED_table[b][a] as they were;
\* a call answered from the cache changes no stored value; the hash table
\* never changes.
C10_StoreOneOrientation ==
    /\ last.kind = "computed" =>
          /\ Stored(GED_table) = Stored(GED_prev) \cup {<<last.h_G, last.h_H, last.value>>}
          /\ last.h_G /= last.h_H => ~HasValue(GED_table, last.h_H, last.h_G)
    /\ last.kind = "cached" => Stored(GED_table) = Stored(GED_prev)
    /\ graphlet_table /= <<>> => graphlet_table = TableInit

\* a value computed for (a, b) while the table already held another value
C10_Witness ==
    /\ last.kind = "computed"
    /\ last.h_G /= last.h_H
    /\ Stored(GED_prev) /= {}
    /\ HasValue(GED_table, last.h_G, last.h_H)
    /\ GED_table[last.h_G][last.h_H] = last.value

\* =================================================================
\* SpecBuild: one call of build_hash_table over a corpus directory.
\* =================================================================
B35 == <<"B", "3", "5">>
CWH == <<"C", "W", "H">>
CHW == <<"C", "H", "W">>

\* the labels of the two arcs of a link of a corpus graph: a backbone link, a
\* cis Watson-Crick/Hoogsteen pair, or a link whose arcs carry no label
LinkSample == {<<B53, B35>>, <<CWH, CHW>>, <<NoLabel, NoLabel>>}

\* the graphs the corpus files hold: paths of 0..MaxBuildNodes nodes
CorpusGraphs ==
    UNION {{[n |-> n, links |-> l] : l \in [1..(n - 1) -> LinkSample]} :
              n \in 0..MaxBuildNodes}

\* G = load_json(path): a DiGraph with both arcs of every link, each arc with
\* its own attribute dict
load_json(file) ==
    LET arcs == {<<i, i + 1>> : i \in 1..(file.n - 1)}
                   \cup {<<i + 1, i>> : i \in 1..(file.n - 1)}
    IN  [graph |-> [nodes |-> 1..file.n, directed |-> TRUE,
                    adj |-> [a \in arcs |-> <<0, a>>]],
         dicts |-> [r \in {<<0, a>> : a \in arcs} |->
                      IF r[2][1] < r[2][2] THEN file.links[r[2][1]][1]
                      ELSE file.links[r[2][2]][2]]]

\* G.to_undirected() of a DiGraph: a Graph with one fresh dict per edge; where
\* both arcs exist the dict of the arc added last wins, and which one that is
\* depends on the order of the nodes in the file
to_undirected(Gd, hp) ==
    LET es == {a \in Arcs(Gd) : a[1] < a[2] \/ Flip(a) \notin Arcs(Gd)}
        options(e) == {hp[Gd.adj[a]] : a \in {e, Flip(e)} \cap Arcs(Gd)}
        ug == [nodes |-> Gd.nodes, directed |-> FALSE,
               adj |-> [a \in es \cup {Flip(e) : e \in es} |->
                          IF a \in es THEN <<0, a>> ELSE <<0, Flip(a)>>]]
    IN  {[graph |-> ug, dicts |-> [r \in {<<0, e>> : e \in es} |-> pick[r[2]]]] :
            pick \in {f \in [es -> {hp[r] : r \in DOMAIN hp}] :
                         \A e \in es : f[e] \in options(e)}}

\* bfs_expand(G, [n], depth): the nodes within `depth` hops of the nodes S
RECURSIVE bfs_expand(_, _, _)
bfs_expand(Gr, S, depth) ==
    IF depth = 0 THEN S
    ELSE bfs_expand(Gr, S \cup UNION {neighbors(Gr, n) : n \in S}, depth - 1)

\* G.subgraph(nodes): a view, its arcs are G's dicts
subgraph(Gr, ns) ==
    [nodes |-> ns, directed |-> Gr.directed,
     adj |-> [a \in {b \in Arcs(Gr) : b[1] \in ns /\ b[2] \in ns} |-> Gr.adj[a]]]

\* extract_graphlet as a view: G.subgraph(...) without .copy()
extract_graphlet_view(Gr, hp, n, size, id) ==
    [graph |-> subgraph(Gr, bfs_expand(Gr, {n}, size)), dicts |-> <<>>]

\* extract_graphlet: G.subgraph(bfs_expand(...)).copy(), graph object `id`
\* with a fresh dict <<id, e>> for every dict <<0, e>> of the view of G
extract_graphlet(Gr, hp, n, size, id) ==
    LET view == subgraph(Gr, bfs_expand(Gr, {n}, size))
    IN  [graph |-> [nodes |-> view.nodes, directed |-> view.directed,
                    adj |-> [a \in Arcs(view) |-> <<id, view.adj[a][2]>>]],
         dicts |-> [r \in {<<id, q[2]>> : q \in Refs(view)} |-> hp[<<0, r[2]>>]]]

\* a graph object as the table holds it
GraphValue(Gr, hp) ==
    [nodes |-> Gr.nodes, directed |-> Gr.directed, labels |-> EdgeLabels(Gr, hp)]

\* the body of the loop over todo, after h = hasher.hash(n), with the
\* collision branch resetting the bucket
AccumulateReset(table, md, h, g) ==
    IF md = "append" THEN Put(table, h, [graphs |-> <<g>>])
    ELSE Put(table, h, [graph |-> g, count |-> 1])

\* the body of the loop over todo, after h = hasher.hash(n)
Accumulate(table, md, h, g) ==
    IF h \notin DOMAIN table
    THEN IF md = "append" THEN Put(table, h, [graphs |-> <<g>>])
         ELSE Put(table, h, [graph |-> g, count |-> 1])
    ELSE IF md = "append"
         THEN Put(table, h, [graphs |-> Append(table[h].graphs, g)])
         ELSE Put(table, h, [graph |-> table[h].graph, count |-> table[h].count + 1])

InitBuild ==
    /\ symmetric_edges \in BOOLEAN /\ wl_hops = DefaultWlHops /\ heap = <<>>
    /\ G1 = None /\ G2 = None /\ calls = 0 /\ digest1 = None /\ digest2 = None
    /\ heap0 = None /\ heap1 = None
    /\ GedIdle
    /\ pc = "start"
    /\ mode \in {"count", "append"}
    /\ directed \in BOOLEAN
    /\ graphlets \in BOOLEAN
    /\ graphsLeft = 0 /\ curG = EmptyGraph /\ srcLabels = <<>> /\ todo = <<>> /\ ti = 1
    /\ hash_table = <<>> /\ seen = <<>>

\* hash_table = {}; graphlist = os.listdir(graph_dir)[:max_graphs]
Begin ==
    /\ pc = "start"
    /\ \E n \in 0..MaxGraphs, max_graphs \in 0..MaxGraphs :
          graphsLeft' = IF max_graphs /= 0 /\ max_graphs < n THEN max_graphs ELSE n
    /\ pc' = "loop"
    /\ hash_table' = <<>>
    /\ UNCHANGED <<hashVars, gedVars, mode, directed, graphlets, curG, srcLabels,
                   todo, ti, seen>>

\* the head of the loop over graphlist: load the graph, make it undirected if
\* asked, and extract the graphlet of every node
LoadGraph ==
    /\ pc = "loop"
    /\ graphsLeft > 0
    /\ \E file \in CorpusGraphs :
       \E ld \in (IF directed THEN {load_json(file)}
                  ELSE to_undirected(load_json(file).graph, load_json(file).dicts)) :
          LET Gr == ld.graph
              ex == [k \in 1..file.n |->
                        extract_graphlet(Gr, ld.dicts, k, DefaultGraphletSize, k)]
              hp == IF graphlets
                    THEN [r \in DOMAIN ld.dicts
                                  \cup UNION {DOMAIN ex[k].dicts : k \in 1..file.n} |->
                             IF r \in DOMAIN ld.dicts THEN ld.dicts[r]
                             ELSE ex[CHOOSE k \in 1..file.n : r \in DOMAIN ex[k].dicts].dicts[r]]
                    ELSE ld.dicts
          IN  /\ curG' = Gr
              /\ heap' = hp
              /\ srcLabels' = EdgeLabels(Gr, hp)
              /\ todo' = IF graphlets THEN [k \in 1..file.n |-> ex[k].graph] ELSE <<Gr>>
              /\ ti' = 1
              /\ IF todo' = <<>>
                 THEN pc' = "loop" /\ graphsLeft' = graphsLeft - 1
                 ELSE pc' = "graph" /\ graphsLeft' = graphsLeft
    /\ UNCHANGED <<symmetric_edges, wl_hops, G1, G2, calls, digest1, digest2, heap0,
                   heap1, gedVars, mode, directed, graphlets, hash_table, seen>>

\* one turn of the loop over todo: h = hasher.hash(n), then the table update;
\* an exception of hasher.hash leaves build_hash_table
HashGraphlet ==
    /\ pc = "graph"
    /\ ti <= Len(todo)
    /\ \E r \in HasherHash(todo[ti], heap, symmetric_edges, wl_hops) :
          /\ heap' = r.heap
          /\ IF r.raised
             THEN /\ pc' = "raised"
                  /\ UNCHANGED <<hash_table, seen, ti, graphsLeft>>
             ELSE /\ hash_table' = Accumulate(hash_table, mode, r.digest,
                                              GraphValue(todo[ti], r.heap))
                  /\ seen' = Put(seen, r.digest,
                                 IF r.digest \in DOMAIN seen THEN seen[r.digest] + 1 ELSE 1)
                  /\ ti' = ti + 1
                  /\ IF ti = Len(todo)
                     THEN pc' = "loop" /\ graphsLeft' = graphsLeft - 1
                     ELSE pc' = "graph" /\ graphsLeft' = graphsLeft
    /\ UNCHANGED <<symmetric_edges, wl_hops, G1, G2, calls, digest1, digest2, heap0,
                   heap1, gedVars, mode, directed, graphlets, curG, srcLabels, todo>>

\* return hash_table
Return ==
    /\ pc = "loop"
    /\ graphsLeft = 0
    /\ pc' = "returned"
    /\ UNCHANGED <<hashVars, gedVars, mode, directed, graphlets, graphsLeft, curG,
                   srcLabels, todo, ti, hash_table, seen>>

NextBuild == Begin \/ LoadGraph \/ HashGraphlet \/ Return

SpecBuild == InitBuild /\ [][NextBuild]_vars

\* table[h]['count'], or len(table[h]['graphs'])
Count(table, h) == IF mode = "append" THEN Len(table[h].graphs) ELSE table[h].count

TableMatchesSeen ==
    /\ DOMAIN hash_table = DOMAIN seen
    /\ \A h \in DOMAIN hash_table : seen[h] >= 1 /\ Count(hash_table, h) = seen[h]

\* C4: at every point of build_hash_table the keys of the table are the
\* digests some processed graphlet hashed to, the count (or the length of the
\* list) of a digest is the number of processed graphlets that hashed to it,
\* and no step removes a key or lowers a count.
C4_TableAccumulates ==
    [][/\ TableMatchesSeen'
       /\ \A h \in DOMAIN hash_table :
             h \in DOMAIN hash_table' /\ Count(hash_table', h) >= Count(hash_table, h)]_vars

\* two digests in the table, one of them hit by several graphlets
C4_Witness ==
    /\ pc = "returned"
    /\ Cardinality(DOMAIN hash_table) >= 2
    /\ \E h \in DOMAIN hash_table : Count(hash_table, h) >= 2 /\ seen[h] = Count(hash_table, h)

\* C5: a failure while one graph is processed does not end the corpus pass:
\* the build ends by returning the table, every graph of the list processed.
C5_FailureDoesNotEndPass ==
    pc \in {"returned", "raised"} => (pc = "returned" /\ graphsLeft = 0)

\* C7: hashing one graphlet (the in-place rewrite of its edge labels) leaves
\* the source graph and every other graphlet of that graph as they were:
\* nodes, edges and edge labels.
C7_GraphletIsCopy ==
    [][(pc = "graph" /\ graphlets /\ heap' /= heap) =>
          /\ curG' = curG
          /\ todo' = todo
          /\ EdgeLabels(curG, heap') = EdgeLabels(curG, heap)
          /\ EdgeLabels(curG, heap') = srcLabels
          /\ \A j \in 1..Len(todo) :
                j /= ti => EdgeLabels(todo[j], heap') = EdgeLabels(todo[j], heap)]_vars

\* both graphlets of a two-node graph hold the edge 1 -> 2 labelled CWH; both
\* were hashed and carry CHW now, the source still carries CWH
C7_Witness ==
    /\ graphlets /\ directed /\ symmetric_edges
    /\ ti = 3
    /\ <<1, 2>> \in Arcs(curG)
    /\ srcLabels[<<1, 2>>] = CWH
    /\ EdgeLabels(curG, heap)[<<1, 2>>] = CWH
    /\ EdgeLabels(todo[1], heap)[<<1, 2>>] = CHW
    /\ EdgeLabels(todo[2], heap)[<<1, 2>>] = CHW

====
